---- MODULE Spec2Model ----
(***************************************************************************)
(* Model of the request bot of src/main.py: the conversation state machine *)
(* (Field Collector, Platform Selector, Submission Finalizer), the recall  *)
(* of a user's history, and the record store they share.                   *)
(*                                                                         *)
(* Conventions.                                                            *)
(*  - A text (a message body, a username, a sheet cell) is a sequence of   *)
(*    tokens; the token " " is whitespace.  str.strip() is Strip.          *)
(*  - Callback data "kind:value" is the pair << kind, value >>, so that    *)
(*    data.split(":", 1)[1] is data[2].                                    *)
(*  - context.user_data of a user is a function whose DOMAIN is the set of *)
(*    keys present; dict.get(k, default) is Get, dict.clear() gives        *)
(*    EmptyDict.  It is keyed by user and outlives a conversation.         *)
(*  - The dispatcher runs one handler at a time (the application is built  *)
(*    without concurrent updates), so a handler is one action.  A handler  *)
(*    that raises leaves the conversation state as it was and keeps what   *)
(*    it had already done.                                                 *)
(*  - Replies and prompts inside a conversation, the manager view and the  *)
(*    export are delivered; the sends that may fail are the store calls    *)
(*    and the bot.send_message of confirm_submit (echo and observer        *)
(*    notifications).                                                      *)
(*  - datetime.now() is an input of the handler that reads it.             *)
(*  - The users in active are followed event by event.  A user outside     *)
(*    active acts on the others only through the sheet: other_submit is    *)
(*    the effect of such a user's completed and confirmed form.            *)
(*  - Spec follows the form and the recall; SpecAdmin follows the commands *)
(*    of the allow-list and the export conversation over a sheet that is    *)
(*    given; SpecRecall follows the recall over longer sheets.              *)
(*  - ev, origin, gen, cancelled, toggles, ntoggles, lastWritten and the   *)
(*    fields gen/origins/after of a stored row are history variables: they *)
(*    record what happened and are never read by the modelled code.        *)
(***************************************************************************)
EXTENDS Integers, Sequences, FiniteSets, TLC

\* ---------------------------------------------------------------- bounds
MaxConv == 2        \* conversations started (action:new), all users together
MaxStore == 2       \* rows appended to the sheet
MaxNow == 0         \* latest reading of the clock
MaxToggles == 2     \* toggle presses, all conversations together
MaxRecords == 2     \* rows of a sheet drawn from the varied rows
MaxSheet == 11      \* rows of a sheet drawn from the two plain rows

\* ------------------------------------------------------------- constants
END == "END"                                   \* ConversationHandler.END
BRAND_NAME == "BRAND_NAME"
CREATOR_NAME == "CREATOR_NAME"
ROOM_NO == "ROOM_NO"
DATE_TO_BE_AIRED == "DATE_TO_BE_AIRED"
CAMERA_REQ == "CAMERA_REQ"
STAGE_DESIGN == "STAGE_DESIGN"
OTHER_TECH == "OTHER_TECH"
PLATFORM_MODE == "PLATFORM_MODE"
PLATFORM_SELECT == "PLATFORM_SELECT"
PLATFORM_OTHER == "PLATFORM_OTHER"
CONFIRM_SUBMIT == "CONFIRM_SUBMIT"
RECALL_MENU == "RECALL_MENU"
SEARCH_BRAND == "SEARCH_BRAND"
EXPORT_CHOICE == "EXPORT_CHOICE"
EXPORT_DATE_START == "EXPORT_DATE_START"
EXPORT_DATE_END == "EXPORT_DATE_END"
EXPORT_REQUESTER == "EXPORT_REQUESTER"

PLATFORMS ==
    << "Facebook", "Instagram", "YouTube", "Brand's Website",
       "Lazada", "Shopee", "TikTok", "Others" >>

NOTIFY_USERNAMES == << "it_lead", "", "it_ops" >>

ADMIN_USERNAMES == << "alice" >>

HistoryLimit == 10

WeekDays == 7

MonthDays == 30

TopLimit == 5

TicksPerDay == 2

\* ----------------------------------------------------------- environment
Users == {1, 2, 3}

\* user.username: user 1 has the handle "alice", user 2 has none, user 3 has
\* the handle "bob"
UserName(u) ==
    IF u = 1 THEN << "alice" >> ELSE IF u = 3 THEN << "bob" >> ELSE << >>

\* the users who fill in the form
FormUsers == {1, 2}

\* the text a user may type: a body with or without surrounding blanks
RawTexts(u) ==
    LET body == IF u = 1 THEN "a" ELSE "b"
    IN  { << body >>, << " ", body, " " >> }

\* the entries whose toggle buttons are pressed
TogglePlatforms == { "Facebook", "TikTok", "Others" }

\* what datetime.now() may read
Times == 0..MaxNow

WriteErrors == { "APIError" }

\* ------------------------------------------------------------- text, dict
RECURSIVE LStrip(_)
LStrip(s) == IF s # << >> /\ Head(s) = " " THEN LStrip(Tail(s)) ELSE s

RECURSIVE RStrip(_)
RStrip(s) ==
    IF s # << >> /\ s[Len(s)] = " " THEN RStrip(SubSeq(s, 1, Len(s) - 1)) ELSE s

Strip(s) == RStrip(LStrip(s))

EmptyDict == [k \in {} |-> << >>]

Get(d, k, default) == IF k \in DOMAIN d THEN d[k] ELSE default

Put(d, k, v) == [x \in (DOMAIN d) \cup {k} |-> IF x = k THEN v ELSE d[x]]

SeqToSet(s) == { s[i] : i \in 1..Len(s) }

\* list(selected): the elements of a set in an order the runtime chooses
ListsOf(S) ==
    { l \in [1..Cardinality(S) -> S] : SeqToSet(l) = S }

\* ", ".join(l)
RECURSIVE Join(_)
Join(l) ==
    IF l = << >> THEN << >>
    ELSE IF Len(l) = 1 THEN << l[1] >>
    ELSE << l[1], ", " >> \o Join(Tail(l))

\* ------------------------------------------------------------------ state
VARIABLES
    active,        \* the users whose updates are followed
    conv,          \* conv[u]: state of u's conversation, END when there is none
    user_data,     \* user_data[u]: context.user_data of u
    store,         \* the rows of the sheet below the header, in append order
    ev,            \* the update just handled: its sender u, the state it came
                   \* in (from), its command or callback data (<< "text" >> for
                   \* a text), the rows stored before it, the store call's result
    sent,          \* what the handler sent, in order
    origin,        \* origin[u][k]: the conversation that wrote user_data[u][k]
    gen,           \* gen[u]: new-request conversations u has started
    cancelled,     \* cancelled[u]: gen[u] at u's latest /cancel, or 0
    toggles,       \* toggles[u]: entries toggled since the mode was chosen
    ntoggles,      \* toggle presses so far
    lastWritten    \* lastWritten[u]: index in store of u's latest row, or 0

vars == << active, conv, user_data, store, ev, sent, origin, gen, cancelled,
           toggles, ntoggles, lastWritten >>

RECURSIVE SumOver(_, _)
SumOver(f, S) ==
    IF S = {} THEN 0
    ELSE LET x == CHOOSE y \in S : TRUE IN f[x] + SumOver(f, S \ {x})

Started == SumOver(gen, Users)

Msg(to, kind, text, ok) == [to |-> to, kind |-> kind, text |-> text, ok |-> ok]

Event(u, data, io) ==
    [u |-> u, from |-> conv[u], data |-> data, rows |-> Len(store), io |-> io]

Init ==
    /\ \E u \in FormUsers : active = { u }
    /\ conv = [u \in Users |-> END]
    /\ user_data = [u \in Users |-> EmptyDict]
    /\ store = << >>
    /\ ev = [u |-> 0, from |-> END, data |-> << "init" >>, rows |-> 0, io |-> "-"]
    /\ sent = << >>
    /\ origin = [u \in Users |-> EmptyDict]
    /\ gen = [u \in Users |-> 0]
    /\ cancelled = [u \in Users |-> 0]
    /\ toggles = [u \in Users |-> << >>]
    /\ ntoggles = 0
    /\ lastWritten = [u \in Users |-> 0]

\* ---------------------------------------------------------------- summary
_format_summary(d) ==
    LET other == Strip(Get(d, "platforms_other", << >>))
    IN  [ brand_name |-> Get(d, "brand_name", << >>),
          creator_name |-> Get(d, "creator_name", << >>),
          room_no |-> Get(d, "room_no", << >>),
          date_to_be_aired |-> Get(d, "date_to_be_aired", << >>),
          camera_requirements |-> Get(d, "camera_requirements", << >>),
          stage_design |-> Get(d, "stage_design", << >>),
          other_technical |-> Get(d, "other_technical", << >>),
          platform_mode |-> Get(d, "platform_mode", ""),
          platforms |-> Join(Get(d, "platforms", << >>)),
          other_platforms |-> IF other # << >> THEN other ELSE << "N/A" >> ]

\* ---------------------------------------------------------- the menu, entry
menu(u) ==
    /\ ev' = Event(u, << "/menu" >>, "-")
    /\ sent' = << Msg(u, "menu", << >>, TRUE) >>
    /\ UNCHANGED << active, conv, user_data, store, origin, gen, cancelled,
                    toggles, ntoggles, lastWritten >>

action_new_entry(u) ==
    /\ conv[u] = END
    /\ Started < MaxConv
    /\ gen' = [gen EXCEPT ![u] = @ + 1]
    /\ conv' = [conv EXCEPT ![u] = BRAND_NAME]
    /\ ev' = Event(u, << "action", "new" >>, "-")
    /\ sent' = << Msg(u, "prompt", BRAND_NAME, TRUE) >>
    /\ UNCHANGED << active, user_data, store, origin, cancelled, toggles, ntoggles, lastWritten >>

\* --------------------------------------------------------- field collector
\* the prompt that opens state: the next question, or the summary to confirm
Prompt(u, state, d) ==
    IF state = CONFIRM_SUBMIT
    THEN Msg(u, "confirm_prompt", _format_summary(d), TRUE)
    ELSE Msg(u, "prompt", state, TRUE)

\* a reply stored in one session shared by all users
FieldReply_SharedSession(u, raw, state, key, next) ==
    /\ conv[u] = state
    /\ user_data' = [v \in Users |-> Put(user_data[v], key, Strip(raw))]
    /\ origin' = [origin EXCEPT ![u] = Put(@, key, gen[u])]
    /\ conv' = [conv EXCEPT ![u] = next]
    /\ ev' = Event(u, << "text" >>, "-")
    /\ sent' = << Prompt(u, next, Put(user_data[u], key, Strip(raw))) >>
    /\ UNCHANGED << active, store, gen, cancelled, toggles, ntoggles,
                    lastWritten >>

\* the common shape of brand_name .. other_technical: store the stripped
\* text under key, prompt for the next field, return next
FieldReply(u, raw, state, key, next) ==
    /\ conv[u] = state
    /\ user_data' = [user_data EXCEPT ![u] = Put(@, key, Strip(raw))]
    /\ origin' = [origin EXCEPT ![u] = Put(@, key, gen[u])]
    /\ conv' = [conv EXCEPT ![u] = next]
    /\ ev' = Event(u, << "text" >>, "-")
    /\ sent' = << Prompt(u, next, Put(user_data[u], key, Strip(raw))) >>
    /\ UNCHANGED << active, store, gen, cancelled, toggles, ntoggles,
                    lastWritten >>

brand_name(u, raw) == FieldReply(u, raw, BRAND_NAME, "brand_name", CREATOR_NAME)

creator_name(u, raw) == FieldReply(u, raw, CREATOR_NAME, "creator_name", ROOM_NO)

\* a room reply that goes on to the camera requirements
room_no_SkipsAirDate(u, raw) == FieldReply(u, raw, ROOM_NO, "room_no", CAMERA_REQ)

room_no(u, raw) == FieldReply(u, raw, ROOM_NO, "room_no", DATE_TO_BE_AIRED)

date_to_be_aired(u, raw) ==
    FieldReply(u, raw, DATE_TO_BE_AIRED, "date_to_be_aired", CAMERA_REQ)

camera_requirements(u, raw) ==
    FieldReply(u, raw, CAMERA_REQ, "camera_requirements", STAGE_DESIGN)

stage_design(u, raw) ==
    FieldReply(u, raw, STAGE_DESIGN, "stage_design", OTHER_TECH)

other_technical(u, raw) ==
    FieldReply(u, raw, OTHER_TECH, "other_technical", PLATFORM_MODE)

\* ------------------------------------------------------- platform selector
platform_mode(u, data) ==
    /\ conv[u] = PLATFORM_MODE
    /\ LET mode == IF data = << "mode", "single" >> THEN "Single" ELSE "Multi"
       IN  /\ user_data' = [user_data EXCEPT
                  ![u] = Put(Put(@, "platform_mode", mode), "platforms", << >>)]
           /\ origin' = [origin EXCEPT
                  ![u] = Put(Put(@, "platform_mode", gen[u]), "platforms", gen[u])]
    /\ toggles' = [toggles EXCEPT ![u] = << >>]
    /\ conv' = [conv EXCEPT ![u] = PLATFORM_SELECT]
    /\ ev' = Event(u, data, "-")
    /\ sent' = << Msg(u, "platforms_keyboard", {}, TRUE) >>
    /\ UNCHANGED << active, store, gen, cancelled, ntoggles, lastWritten >>

\* a toggle that only ever adds
ToggleSelection_NeverRemoves(mode, selected, selection) ==
    IF mode = "Single" THEN { selection } ELSE selected \cup { selection }

\* a toggle that flips membership whatever the mode
ToggleSelection_IgnoresMode(mode, selected, selection) ==
    IF selection \in selected THEN selected \ { selection }
    ELSE selected \cup { selection }

\* lines 347-353: the selection after a toggle of selection
ToggleSelection(mode, selected, selection) ==
    IF mode = "Single" THEN { selection }
    ELSE IF selection \in selected THEN selected \ { selection }
    ELSE selected \cup { selection }

\* "done" that never asks for the other platforms
NextAfterDone_SkipsOther(selected) == CONFIRM_SUBMIT

\* lines 338-345: where "done" leads
NextAfterDone(selected) ==
    IF "Others" \in selected THEN PLATFORM_OTHER ELSE CONFIRM_SUBMIT

platform_select(u, data) ==
    /\ conv[u] = PLATFORM_SELECT
    /\ LET selection == data[2]
           selected == SeqToSet(Get(user_data[u], "platforms", << >>))
           mode == Get(user_data[u], "platform_mode", "Multi")
       IN  IF selection = "done"
           THEN /\ \E l \in ListsOf(selected) :
                       LET d == Put(user_data[u], "platforms", l)
                       IN  /\ user_data' = [user_data EXCEPT ![u] = d]
                           /\ sent' = << Prompt(u, NextAfterDone(selected), d) >>
                /\ conv' = [conv EXCEPT ![u] = NextAfterDone(selected)]
                /\ toggles' = [toggles EXCEPT ![u] = << >>]
                /\ UNCHANGED ntoggles
           ELSE /\ ntoggles < MaxToggles
                /\ ntoggles' = ntoggles + 1
                /\ LET new == ToggleSelection(mode, selected, selection)
                   IN  /\ \E l \in ListsOf(new) :
                              user_data' = [user_data EXCEPT
                                                ![u] = Put(@, "platforms", l)]
                       /\ sent' = << Msg(u, "platforms_keyboard", new, TRUE) >>
                /\ toggles' = [toggles EXCEPT ![u] = Append(@, selection)]
                /\ conv' = [conv EXCEPT ![u] = PLATFORM_SELECT]
    /\ origin' = [origin EXCEPT ![u] = Put(@, "platforms", gen[u])]
    /\ ev' = Event(u, data, "-")
    /\ UNCHANGED << active, store, gen, cancelled, lastWritten >>

platform_other(u, raw) ==
    FieldReply(u, raw, PLATFORM_OTHER, "platforms_other", CONFIRM_SUBMIT)

\* ---------------------------------------------------- submission finalizer
\* line 377: the requester written to the sheet
Requester(u) ==
    IF Strip(UserName(u)) # << >> THEN Strip(UserName(u))
    ELSE << "id:", ToString(u) >>

\* line 378: strftime("%Y-%m-%d %H:%M:%S") of the clock, as date and time of day
Timestamp(t) == [date |-> t \div TicksPerDay, tod |-> t % TicksPerDay]

\* lines 380-393: the row; gen, origins and after are history fields
Row(u, d, t) ==
    [ ts |-> Timestamp(t),
      requester |-> Requester(u),
      brand_name |-> Get(d, "brand_name", << >>),
      creator_name |-> Get(d, "creator_name", << >>),
      room_no |-> Get(d, "room_no", << >>),
      date_to_be_aired |-> Get(d, "date_to_be_aired", << >>),
      camera_requirements |-> Get(d, "camera_requirements", << >>),
      stage_design |-> Get(d, "stage_design", << >>),
      other_technical |-> Get(d, "other_technical", << >>),
      platform_mode |-> Get(d, "platform_mode", ""),
      platforms |-> Join(Get(d, "platforms", << >>)),
      platforms_other |-> Get(d, "platforms_other", << >>),
      gen |-> gen[u],
      origins |-> { origin[u][k] : k \in DOMAIN origin[u] },
      after |-> cancelled[u] ]

\* lines 406-411
NotifyText(u, d, t) ==
    [ summary |-> _format_summary(d), by |-> Requester(u), ts |-> Timestamp(t) ]

\* a loop that a failed send ends
RECURSIVE NotifyLoop_StopsAtFailure(_, _, _)
NotifyLoop_StopsAtFailure(names, failing, text) ==
    IF names = << >> THEN << >>
    ELSE IF Head(names) # ""
         THEN << Msg(Head(names), "notify", text, Head(names) \notin failing) >>
                \o ( IF Head(names) \in failing THEN << >>
                     ELSE NotifyLoop_StopsAtFailure(Tail(names), failing, text) )
         ELSE NotifyLoop_StopsAtFailure(Tail(names), failing, text)

\* lines 414-419: one send per non-empty observer name, a failure is logged
\* and the loop goes on; failing is the set of observers the send fails for
RECURSIVE NotifyLoop(_, _, _)
NotifyLoop(names, failing, text) ==
    IF names = << >> THEN << >>
    ELSE IF Head(names) # ""
         THEN << Msg(Head(names), "notify", text, Head(names) \notin failing) >>
                \o NotifyLoop(Tail(names), failing, text)
         ELSE NotifyLoop(Tail(names), failing, text)

\* a failed write that is reported but not returned from
SubmitYes_GoesOnAfterFailure(u, d, t, wr, echoOk, failing) ==
    IF wr # "ok"
    THEN [ rows |-> << >>,
           sent |-> << Msg(u, "save_failed", wr, TRUE),
                       Msg(u, "recorded", _format_summary(d), TRUE),
                       Msg(u, "echo", NotifyText(u, d, t), echoOk) >>
                    \o NotifyLoop(NOTIFY_USERNAMES, failing, NotifyText(u, d, t)),
           data |-> EmptyDict,
           next |-> END ]
    ELSE [ rows |-> << Row(u, d, t) >>,
           sent |-> << Msg(u, "recorded", _format_summary(d), TRUE),
                       Msg(u, "echo", NotifyText(u, d, t), TRUE) >>
                    \o NotifyLoop(NOTIFY_USERNAMES, failing, NotifyText(u, d, t)),
           data |-> EmptyDict,
           next |-> END ]

\* lines 376-422: what confirm:yes does, given the results of the store write
\* (wr is "ok" or the error), of the echo and of the observer sends
SubmitYes(u, d, t, wr, echoOk, failing) ==
    IF wr # "ok"
    THEN [ rows |-> << >>,
           sent |-> << Msg(u, "save_failed", wr, TRUE) >>,
           data |-> d,
           next |-> END ]
    ELSE IF ~echoOk
    THEN [ rows |-> << Row(u, d, t) >>,
           sent |-> << Msg(u, "recorded", _format_summary(d), TRUE),
                       Msg(u, "echo", NotifyText(u, d, t), FALSE) >>,
           data |-> d,
           next |-> CONFIRM_SUBMIT ]
    ELSE [ rows |-> << Row(u, d, t) >>,
           sent |-> << Msg(u, "recorded", _format_summary(d), TRUE),
                       Msg(u, "echo", NotifyText(u, d, t), TRUE) >>
                    \o NotifyLoop(NOTIFY_USERNAMES, failing, NotifyText(u, d, t)),
           data |-> EmptyDict,
           next |-> END ]

\* lines 372-374: what confirm:no does
SubmitNo(u, d) ==
    [ rows |-> << >>,
      sent |-> << Msg(u, "submission_canceled", << >>, TRUE) >>,
      data |-> d,
      next |-> END ]

Observers == { NOTIFY_USERNAMES[i] : i \in 1..Len(NOTIFY_USERNAMES) } \ { "" }

confirm_submit(u, data, t, wr, echoOk, failing) ==
    /\ conv[u] = CONFIRM_SUBMIT
    /\ (data # << "confirm", "no" >> /\ wr = "ok") => Len(store) < MaxStore
    /\ LET r == IF data = << "confirm", "no" >> THEN SubmitNo(u, user_data[u])
                ELSE SubmitYes(u, user_data[u], t, wr, echoOk, failing)
       IN  /\ store' = store \o r.rows
           /\ sent' = r.sent
           /\ user_data' = [user_data EXCEPT ![u] = r.data]
           /\ origin' = [origin EXCEPT ![u] = [k \in DOMAIN r.data |-> @[k]]]
           /\ conv' = [conv EXCEPT ![u] = r.next]
           /\ lastWritten' = [lastWritten EXCEPT
                  ![u] = IF r.rows # << >> THEN Len(store) + 1 ELSE @]
           /\ toggles' = [toggles EXCEPT ![u] = IF r.next = END THEN << >> ELSE @]
    /\ ev' = Event(u, data, IF data = << "confirm", "no" >> THEN "-" ELSE wr)
    /\ UNCHANGED << active, gen, cancelled, ntoggles >>

\* the user_data of a user who has filled in a Single/Facebook form
FilledForm(v) ==
    LET text == Strip(CHOOSE raw \in RawTexts(v) : TRUE)
    IN  [ k \in { "brand_name", "creator_name", "room_no", "date_to_be_aired",
                  "camera_requirements", "stage_design", "other_technical",
                  "platform_mode", "platforms" } |->
            IF k = "platform_mode" THEN "Single"
            ELSE IF k = "platforms" THEN << "Facebook" >>
            ELSE text ]

\* a user outside active confirms a filled form; the write and the sends succeed
other_submit(v, t) ==
    /\ Len(store) < MaxStore
    /\ LET r == SubmitYes(v, FilledForm(v), t, "ok", TRUE, {})
       IN  /\ store' = store \o r.rows
           /\ sent' = r.sent
    /\ lastWritten' = [lastWritten EXCEPT ![v] = Len(store) + 1]
    /\ ev' = [u |-> v, from |-> CONFIRM_SUBMIT, data |-> << "confirm", "yes" >>,
              rows |-> Len(store), io |-> "ok"]
    /\ UNCHANGED << active, conv, user_data, origin, gen, cancelled, toggles,
                    ntoggles >>

\* ------------------------------------------------------------------ cancel
\* a cancel that forgets to clear
DataAfterCancel_Keeps(d) == d

\* line 651: what /cancel leaves of user_data
DataAfterCancel(d) == EmptyDict

cancel(u) ==
    /\ conv[u] # END
    /\ user_data' = [user_data EXCEPT ![u] = DataAfterCancel(@)]
    /\ origin' = [origin EXCEPT
           ![u] = [k \in DOMAIN DataAfterCancel(user_data[u]) |-> @[k]]]
    /\ conv' = [conv EXCEPT ![u] = END]
    /\ cancelled' = [cancelled EXCEPT ![u] = gen[u]]
    /\ toggles' = [toggles EXCEPT ![u] = << >>]
    /\ ev' = Event(u, << "/cancel" >>, "-")
    /\ sent' = << Msg(u, "canceled", << >>, TRUE) >>
    /\ UNCHANGED << active, store, gen, ntoggles, lastWritten >>

\* ------------------------------------------------------------------ recall
ReadErrors == { "APIError" }

\* s[:n] in the place of s[-n:]
LastN_TakesFirst(s, n) == IF Len(s) <= n THEN s ELSE SubSeq(s, 1, n)

\* s[-n:] turned round, the last element first
LastN_Reversed(s, n) ==
    LET m == IF Len(s) <= n THEN Len(s) ELSE n
    IN  [j \in 1..m |-> s[Len(s) + 1 - j]]

\* s[-n:]
LastN(s, n) == IF Len(s) <= n THEN s ELSE SubSeq(s, Len(s) - n + 1, Len(s))

\* [i for i in ... if hit[i]]: the indices i, in order, with hit[i]
Matching(hit) ==
    SelectSeq([i \in DOMAIN hit |-> i], LAMBDA i : hit[i])

\* str.lower() of a token, of a text
LowerToken(c) == CASE c = "A" -> "a" [] c = "B" -> "b" [] OTHER -> c

Lower(s) == [i \in 1..Len(s) |-> LowerToken(s[i])]

\* q in s
IsInfix(q, s) ==
    \E i \in 0..(Len(s) - Len(q)) : SubSeq(s, i + 1, i + Len(q)) = q

action_recall_entry(u) ==
    /\ conv[u] = END
    /\ conv' = [conv EXCEPT ![u] = RECALL_MENU]
    /\ ev' = Event(u, << "action", "recall" >>, "-")
    /\ sent' = << Msg(u, "recall_keyboard", << >>, TRUE) >>
    /\ UNCHANGED << active, user_data, store, origin, gen, cancelled, toggles,
                    ntoggles, lastWritten >>

\* lines 446-450: a line of the history reply; row is the index of the row
HistoryLine(rows, i) ==
    [ ts |-> rows[i].ts, brand_name |-> rows[i].brand_name,
      date_to_be_aired |-> rows[i].date_to_be_aired, row |-> i ]

\* a history that compares the Requester Username cell as it is, blanks and all
show_history_NoTrim(u, rows, rd) ==
    LET username == Strip(UserName(u))
        mine == [i \in 1..Len(rows) |-> rows[i].requester = username]
        latest == LastN(Matching(mine), HistoryLimit)
    IN  IF username = << >> THEN Msg(u, "no_username", << >>, TRUE)
        ELSE IF rd # "ok" THEN Msg(u, "read_failed", rd, TRUE)
        ELSE IF latest = << >> THEN Msg(u, "no_history", << >>, TRUE)
        ELSE Msg(u, "history",
                 [j \in 1..Len(latest) |-> HistoryLine(rows, latest[j])], TRUE)

\* lines 425-452: the reply of show_history; rd is "ok" or the read error
show_history(u, rows, rd) ==
    LET username == Strip(UserName(u))
        mine == [i \in 1..Len(rows) |-> Strip(rows[i].requester) = username]
        latest == LastN(Matching(mine), HistoryLimit)
    IN  IF username = << >> THEN Msg(u, "no_username", << >>, TRUE)
        ELSE IF rd # "ok" THEN Msg(u, "read_failed", rd, TRUE)
        ELSE IF latest = << >> THEN Msg(u, "no_history", << >>, TRUE)
        ELSE Msg(u, "history",
                 [j \in 1..Len(latest) |-> HistoryLine(rows, latest[j])], TRUE)

recall_choice(u, data, rd) ==
    /\ conv[u] = RECALL_MENU
    /\ IF data = << "recall", "history" >>
       THEN /\ sent' = << show_history(u, store, rd) >>
            /\ conv' = [conv EXCEPT ![u] = END]
       ELSE IF data = << "recall", "search" >>
       THEN /\ sent' = << Msg(u, "prompt", SEARCH_BRAND, TRUE) >>
            /\ conv' = [conv EXCEPT ![u] = SEARCH_BRAND]
       ELSE /\ sent' = << Msg(u, "bad_recall_option", << >>, TRUE) >>
            /\ conv' = [conv EXCEPT ![u] = END]
    /\ ev' = Event(u, data, IF data = << "recall", "history" >> THEN rd ELSE "-")
    /\ UNCHANGED << active, user_data, store, origin, gen, cancelled, toggles, ntoggles, lastWritten >>

\* lines 470-474: a line of the search reply
SearchLine(rows, i) ==
    [ ts |-> rows[i].ts, brand_name |-> rows[i].brand_name,
      requester |-> rows[i].requester, row |-> i ]

search_brand(u, raw, rd) ==
    /\ conv[u] = SEARCH_BRAND
    /\ LET query_text == Lower(Strip(raw))
           hit == [i \in 1..Len(store) |->
                       IsInfix(query_text, Lower(store[i].brand_name))]
           matches == Matching(hit)
           shown == LastN(matches, HistoryLimit)
       IN  sent' = IF rd # "ok" THEN << Msg(u, "read_failed", rd, TRUE) >>
                   ELSE IF matches = << >>
                   THEN << Msg(u, "no_matches", << >>, TRUE) >>
                   ELSE << Msg(u, "matches",
                               [j \in 1..Len(shown) |-> SearchLine(store, shown[j])],
                               TRUE) >>
    /\ conv' = [conv EXCEPT ![u] = END]
    /\ ev' = Event(u, << "text" >> \o raw, rd)
    /\ UNCHANGED << active, user_data, store, origin, gen, cancelled, toggles, ntoggles, lastWritten >>

\* ------------------------------------------------------------- allow-list
\* str.lstrip("@")
RECURSIVE LStripAt(_)
LStripAt(s) == IF s # << >> /\ Head(s) = "@" THEN LStripAt(Tail(s)) ELSE s

\* an allow-list test that lets an empty handle through
_is_admin_AdmitsEmpty(u) ==
    LET username == Strip(UserName(u))
    IN  username = << >>
            \/ \E i \in 1..Len(ADMIN_USERNAMES) :
                   LStripAt(username) = << ADMIN_USERNAMES[i] >>

\* lines 188-192
_is_admin(u) ==
    LET username == Strip(UserName(u))
    IN  /\ username # << >>
        /\ \E i \in 1..Len(ADMIN_USERNAMES) :
               LStripAt(username) = << ADMIN_USERNAMES[i] >>

\* lines 239-252 and 580-590: the button and the command that open the export
\* conversation; both are entry points, taken when no conversation is active
ExportEntry(u, data) ==
    /\ conv[u] = END
    /\ IF ~_is_admin(u)
       THEN /\ sent' = << Msg(u, "denied", "export", TRUE) >>
            /\ conv' = [conv EXCEPT ![u] = END]
       ELSE /\ sent' = << Msg(u, "export_keyboard", << >>, TRUE) >>
            /\ conv' = [conv EXCEPT ![u] = EXPORT_CHOICE]
    /\ ev' = Event(u, data, "-")
    /\ UNCHANGED << active, user_data, store, origin, gen, cancelled, toggles,
                    ntoggles, lastWritten >>

action_export_entry(u) == ExportEntry(u, << "action", "export" >>)

export_csv_command(u) == ExportEntry(u, << "/export" >>)

\* lines 662-699: action:export and /export while a conversation is active: no
\* state handler and no fallback takes them, and no handler outside the
\* conversation is registered for them, so the update is dropped
export_unhandled(u, data) ==
    /\ conv[u] # END
    /\ ev' = Event(u, data, "-")
    /\ sent' = << >>
    /\ UNCHANGED << active, conv, user_data, store, origin, gen, cancelled,
                    toggles, ntoggles, lastWritten >>

\* lines 255-261 and 593-597: handlers outside the conversation, taken in
\* every conversation state, which they leave as it is
DashboardLink(u, data) ==
    /\ sent' = << Msg(u, IF _is_admin(u) THEN "dashboard_link" ELSE "denied",
                      "dashboard", TRUE) >>
    /\ ev' = Event(u, data, "-")
    /\ UNCHANGED << active, conv, user_data, store, origin, gen, cancelled,
                    toggles, ntoggles, lastWritten >>

action_dashboard(u) == DashboardLink(u, << "action", "dashboard" >>)

dashboard_command(u) == DashboardLink(u, << "/dashboard" >>)

\* ------------------------------------------------------------ manager view
\* datetime.strptime(ts, "%Y-%m-%d %H:%M:%S") of a Timestamp cell: a cell that
\* holds a formatted timestamp has the fields date and tod, any other cell
\* (empty, or a text in another format) makes strptime raise
ParseTimestamp(cell) ==
    IF DOMAIN cell = { "date", "tod" }
    THEN [ ok |-> TRUE, date |-> cell.date,
           tick |-> cell.date * TicksPerDay + cell.tod ]
    ELSE [ ok |-> FALSE, date |-> 0, tick |-> 0 ]

\* (now - ts_dt).days: whole days of the difference, rounded down
DeltaDays(now, tick) == (now - tick) \div TicksPerDay

\* lines 622-626: delta.days <= days
InWindow(now, tick, days) == DeltaDays(now, tick) <= days

\* a loop that counts a record once, in the narrowest window it falls in
RECURSIVE CountWindows_Exclusive(_, _)
CountWindows_Exclusive(rows, now) ==
    IF rows = << >> THEN [ last_7 |-> 0, last_30 |-> 0 ]
    ELSE LET acc == CountWindows_Exclusive(SubSeq(rows, 1, Len(rows) - 1), now)
             ts == ParseTimestamp(rows[Len(rows)].ts)
         IN  IF ~ts.ok THEN acc
             ELSE IF InWindow(now, ts.tick, WeekDays)
             THEN [ acc EXCEPT !.last_7 = @ + 1 ]
             ELSE IF InWindow(now, ts.tick, MonthDays)
             THEN [ acc EXCEPT !.last_30 = @ + 1 ]
             ELSE acc

\* lines 611-626: the loop over the records; a record whose timestamp does
\* not parse is counted in neither window
RECURSIVE CountWindows(_, _)
CountWindows(rows, now) ==
    IF rows = << >> THEN [ last_7 |-> 0, last_30 |-> 0 ]
    ELSE LET acc == CountWindows(SubSeq(rows, 1, Len(rows) - 1), now)
             ts == ParseTimestamp(rows[Len(rows)].ts)
         IN  IF ~ts.ok THEN acc
             ELSE [ last_7 |-> acc.last_7
                        + ( IF InWindow(now, ts.tick, WeekDays) THEN 1 ELSE 0 ),
                    last_30 |-> acc.last_30
                        + ( IF InWindow(now, ts.tick, MonthDays) THEN 1 ELSE 0 ) ]

\* line 615
BrandOf(r) ==
    IF Strip(r.brand_name) # << >> THEN Strip(r.brand_name) ELSE << "Unknown" >>

\* line 615, for every record
Brands(rows) == [i \in 1..Len(rows) |-> BrandOf(rows[i])]

\* the keys of brand_counts in the order of their insertion, each as the index
\* of the record that inserted it
BrandKeys(brands) ==
    Matching([i \in 1..Len(brands) |-> \A j \in 1..(i - 1) : brands[j] # brands[i]])

\* line 616: brand_counts of the key that record i inserted
BrandCount(brands, i) ==
    Cardinality({ j \in 1..Len(brands) : brands[j] = brands[i] })

\* line 628: sorted(..., key=count, reverse=True), a stable sort
SortedBrands(rows) ==
    LET brands == Brands(rows)
        keys == BrandKeys(brands)
        n == Len(keys)
        c == [k \in 1..n |-> BrandCount(brands, keys[k])]
        before == [i \in 1..n |->
                      Cardinality({ j \in 1..n :
                                      c[j] > c[i] \/ (c[j] = c[i] /\ j < i) })]
        at == [k \in 1..n |-> CHOOSE i \in 1..n : before[i] = k - 1]
    IN  [ k \in 1..n |->
            << "- " >> \o brands[keys[at[k]]] \o << ": ", ToString(c[at[k]]) >> ]

\* s[:n]
FirstN(s, n) == IF Len(s) <= n THEN s ELSE SubSeq(s, 1, n)

\* top lines that are left empty when there is no brand
TopLines_NoPlaceholder(rows) == FirstN(SortedBrands(rows), TopLimit)

\* lines 628-629: the first TopLimit brands, or the placeholder line
TopLines(rows) ==
    LET top_brands == FirstN(SortedBrands(rows), TopLimit)
    IN  IF top_brands = << >> THEN << << "- None" >> >> ELSE top_brands

\* lines 600-639: what send_manager_view sends; now is the clock it read (kept
\* in the message as a history field), rd the result of the read
send_manager_view(u, rows, now, rd) ==
    IF rd # "ok" THEN << Msg(u, "read_failed", rd, TRUE) >>
    ELSE LET counts == CountWindows(rows, now)
         IN  << Msg(u, "manager_view",
                    [ total |-> Len(rows),
                      last_7 |-> counts.last_7,
                      last_30 |-> counts.last_30,
                      top |-> TopLines(rows),
                      now |-> now ], TRUE) >>

\* lines 264-271 and 642-646: handlers outside the conversation
ManagerView(u, data, before, now, rd) ==
    /\ sent' = IF ~_is_admin(u) THEN << Msg(u, "denied", "manager", TRUE) >>
               ELSE before \o send_manager_view(u, store, now, rd)
    /\ ev' = Event(u, data, IF _is_admin(u) THEN rd ELSE "-")
    /\ UNCHANGED << active, conv, user_data, store, origin, gen, cancelled,
                    toggles, ntoggles, lastWritten >>

action_manager(u, now, rd) ==
    ManagerView(u, << "action", "manager" >>,
                << Msg(u, "preparing_manager_view", << >>, TRUE) >>, now, rd)

manager_view_command(u, now, rd) ==
    ManagerView(u, << "/manager" >>, << >>, now, rd)

\* ------------------------------------------------------------------ export
\* datetime.strptime(value.strip(), "%Y-%m-%d").date(): the day number of a
\* date text, ok FALSE when strptime raises
DayOf(token) ==
    CASE token = "2024-02-01" -> 32
      [] token = "2024-02-02" -> 33
      [] token = "2024-02-09" -> 40
      [] OTHER -> 0

\* a parser that takes any text for a date
_parse_date_AcceptsAnything(value) ==
    LET v == Strip(value)
    IN  IF Len(v) = 1 /\ DayOf(v[1]) # 0
        THEN [ ok |-> TRUE, date |-> DayOf(v[1]) ]
        ELSE [ ok |-> TRUE, date |-> 0 ]

_parse_date(value) ==
    LET v == Strip(value)
    IN  IF Len(v) = 1 /\ DayOf(v[1]) # 0
        THEN [ ok |-> TRUE, date |-> DayOf(v[1]) ]
        ELSE [ ok |-> FALSE, date |-> 0 ]

\* dict.pop(k, None)
Pop(d, k) == [x \in (DOMAIN d) \ {k} |-> d[x]]

\* the columns of a row, as get_all_records returns them
Cells(r) ==
    [ ts |-> r.ts, requester |-> r.requester, brand_name |-> r.brand_name,
      creator_name |-> r.creator_name, room_no |-> r.room_no,
      date_to_be_aired |-> r.date_to_be_aired,
      camera_requirements |-> r.camera_requirements,
      stage_design |-> r.stage_design, other_technical |-> r.other_technical,
      platform_mode |-> r.platform_mode, platforms |-> r.platforms,
      platforms_other |-> r.platforms_other ]

\* lines 479-491: the notice or the file sent for the rows picked (their
\* indices in rows); now is the clock read for the file name; row is a
\* history field
export_csv_records(u, rows, picked, now) ==
    IF picked = << >> THEN << Msg(u, "nothing_to_export", << >>, TRUE) >>
    ELSE << Msg(u, "document",
                [ filename |-> Timestamp(now),
                  lines |-> [j \in 1..Len(picked) |->
                                [ row |-> picked[j], cells |-> Cells(rows[picked[j]]) ]] ],
                TRUE) >>

\* lines 494-514; a choice the handler does not know leaves the conversation
\* where it was
export_choice(u, data, now, rd) ==
    /\ conv[u] = EXPORT_CHOICE
    /\ LET choice == data[2]
           all == [i \in 1..Len(store) |-> i]
       IN  IF choice = "all"
           THEN /\ sent' = << Msg(u, "preparing_export", << >>, TRUE) >>
                       \o ( IF rd # "ok" THEN << Msg(u, "read_failed", rd, TRUE) >>
                            ELSE export_csv_records(u, store, all, now) )
                /\ conv' = [conv EXCEPT ![u] = END]
                /\ ev' = Event(u, data, rd)
           ELSE /\ sent' = IF choice = "date"
                           THEN << Msg(u, "prompt", EXPORT_DATE_START, TRUE) >>
                           ELSE IF choice = "requester"
                           THEN << Msg(u, "prompt", EXPORT_REQUESTER, TRUE) >>
                           ELSE << >>
                /\ conv' = [conv EXCEPT
                       ![u] = IF choice = "date" THEN EXPORT_DATE_START
                              ELSE IF choice = "requester" THEN EXPORT_REQUESTER
                              ELSE EXPORT_CHOICE]
                /\ ev' = Event(u, data, "-")
    /\ UNCHANGED << active, user_data, store, origin, gen, cancelled, toggles,
                    ntoggles, lastWritten >>

\* lines 517-525
export_date_start(u, raw) ==
    /\ conv[u] = EXPORT_DATE_START
    /\ LET start == _parse_date(raw)
       IN  IF ~start.ok
           THEN /\ sent' = << Msg(u, "invalid_date", EXPORT_DATE_START, TRUE) >>
                /\ UNCHANGED << conv, user_data >>
           ELSE /\ user_data' = [user_data EXCEPT
                       ![u] = Put(@, "export_start", start.date)]
                /\ sent' = << Msg(u, "prompt", EXPORT_DATE_END, TRUE) >>
                /\ conv' = [conv EXCEPT ![u] = EXPORT_DATE_END]
    /\ ev' = Event(u, << "text" >> \o raw, "-")
    /\ UNCHANGED << active, store, origin, gen, cancelled, toggles, ntoggles,
                    lastWritten >>

\* an order test the wrong way round
EndBeforeStart_Reversed(d, end) ==
    "export_start" \in DOMAIN d /\ end > d["export_start"]

\* lines 535-536: start and end < start
EndBeforeStart(d, end) ==
    "export_start" \in DOMAIN d /\ end < d["export_start"]

\* a range test on the timestamps themselves, the end date taken at midnight
InRange_ToMidnight(cell, start, end) ==
    LET ts == ParseTimestamp(cell)
    IN  /\ ts.ok
        /\ start * TicksPerDay <= ts.tick
        /\ ts.tick <= end * TicksPerDay

\* lines 550-557: the timestamp parses and its date lies in [start, end]
InRange(cell, start, end) ==
    LET ts == ParseTimestamp(cell)
    IN  ts.ok /\ start <= ts.date /\ ts.date <= end

\* lines 528-562; the text typed is kept in ev.data
export_date_end(u, raw, now, rd) ==
    /\ conv[u] = EXPORT_DATE_END
    /\ LET end == _parse_date(raw)
           d == user_data[u]
           hit == [i \in 1..Len(store) |->
                       InRange(store[i].ts, d["export_start"], end.date)]
       IN  IF ~end.ok
           THEN /\ sent' = << Msg(u, "invalid_date", EXPORT_DATE_END, TRUE) >>
                /\ ev' = Event(u, << "text" >> \o raw, "-")
                /\ UNCHANGED << conv, user_data >>
           ELSE IF EndBeforeStart(d, end.date)
           THEN /\ sent' = << Msg(u, "end_before_start", EXPORT_DATE_END, TRUE) >>
                /\ ev' = Event(u, << "text" >> \o raw, "-")
                /\ UNCHANGED << conv, user_data >>
           ELSE IF rd # "ok"
           THEN /\ sent' = << Msg(u, "read_failed", rd, TRUE) >>
                /\ ev' = Event(u, << "text" >> \o raw, rd)
                /\ conv' = [conv EXCEPT ![u] = END]
                /\ UNCHANGED user_data
           ELSE /\ sent' = export_csv_records(u, store, Matching(hit), now)
                /\ ev' = Event(u, << "text" >> \o raw, rd)
                /\ conv' = [conv EXCEPT ![u] = END]
                /\ user_data' = [user_data EXCEPT ![u] = Pop(@, "export_start")]
    /\ UNCHANGED << active, store, origin, gen, cancelled, toggles, ntoggles,
                    lastWritten >>

\* lines 565-577
export_requester(u, raw, now, rd) ==
    /\ conv[u] = EXPORT_REQUESTER
    /\ LET requester == LStripAt(Strip(raw))
           hit == [i \in 1..Len(store) |-> Strip(store[i].requester) = requester]
       IN  /\ sent' = IF rd # "ok" THEN << Msg(u, "read_failed", rd, TRUE) >>
                      ELSE export_csv_records(u, store, Matching(hit), now)
           /\ conv' = [conv EXCEPT ![u] = END]
    /\ ev' = Event(u, << "text" >> \o raw, rd)
    /\ UNCHANGED << active, user_data, store, origin, gen, cancelled, toggles,
                    ntoggles, lastWritten >>

\* ----------------------------------------------------------- specification
Next ==
    \/ \E v \in FormUsers \ active, t \in Times : other_submit(v, t)
    \/ \E u \in Users : u \in active /\ menu(u)
    \/ \E u \in Users : u \in active /\ action_new_entry(u)
    \/ \E u \in Users : u \in active /\ \E raw \in RawTexts(u) : brand_name(u, raw)
    \/ \E u \in Users : u \in active /\ \E raw \in RawTexts(u) : creator_name(u, raw)
    \/ \E u \in Users : u \in active /\ \E raw \in RawTexts(u) : room_no(u, raw)
    \/ \E u \in Users : u \in active /\ \E raw \in RawTexts(u) : date_to_be_aired(u, raw)
    \/ \E u \in Users : u \in active /\ \E raw \in RawTexts(u) : camera_requirements(u, raw)
    \/ \E u \in Users : u \in active /\ \E raw \in RawTexts(u) : stage_design(u, raw)
    \/ \E u \in Users : u \in active /\ \E raw \in RawTexts(u) : other_technical(u, raw)
    \/ \E u \in Users : u \in active /\ \E raw \in RawTexts(u) : platform_other(u, raw)
    \/ \E u \in Users : u \in active /\
            \E data \in { << "mode", "single" >>, << "mode", "multi" >> } :
                platform_mode(u, data)
    \/ \E u \in Users : u \in active /\
            \E selection \in TogglePlatforms \cup { "done" } :
                platform_select(u, << "platform", selection >>)
    \/ \E u \in Users : u \in active /\
            \E data \in { << "confirm", "yes" >>, << "confirm", "no" >> },
               t \in Times,
               wr \in { "ok" } \cup WriteErrors,
               echoOk \in BOOLEAN,
               failing \in SUBSET Observers :
                confirm_submit(u, data, t, wr, echoOk, failing)
    \/ \E u \in Users : u \in active /\ cancel(u)
    \/ \E u \in Users : u \in active /\ action_recall_entry(u)
    \/ \E u \in Users : u \in active /\
            \E data \in { << "recall", "history" >>, << "recall", "search" >>,
                           << "recall", "other" >> },
               rd \in { "ok" } \cup ReadErrors :
                recall_choice(u, data, rd)
    \/ \E u \in Users : u \in active /\
            \E raw \in RawTexts(u), rd \in { "ok" } \cup ReadErrors :
                search_brand(u, raw, rd)

Spec == Init /\ [][Next]_vars

\* ------------------------------------------- the sheet the admin reads from
\* a row with the given Timestamp, Requester Username and Brand Name cells
SheetRow(ts, requester, brand) ==
    [ ts |-> ts, requester |-> requester, brand_name |-> brand,
      creator_name |-> << "c" >>, room_no |-> << "r" >>,
      date_to_be_aired |-> << "d" >>, camera_requirements |-> << "q" >>,
      stage_design |-> << "s" >>, other_technical |-> << "o" >>,
      platform_mode |-> "Single", platforms |-> << "Facebook" >>,
      platforms_other |-> << >>, gen |-> 0, origins |-> {}, after |-> 0 ]

\* what datetime.now() may read while the admin is at work: the midnight
\* that starts day 40 and the noon of that day
AdminTimes == { 40 * TicksPerDay, 40 * TicksPerDay + 1 }

\* rows as the sheet may hold them: written at noon of day 40, at noon of day
\* 32 and at noon of day 9, and two whose Timestamp cell does not parse, one
\* empty and one in another format
AdminRecords ==
    { SheetRow(Timestamp(40 * TicksPerDay + 1), << "alice" >>, << "a" >>),
      SheetRow(Timestamp(32 * TicksPerDay + 1), << "bob" >>, << "b" >>),
      SheetRow(Timestamp(9 * TicksPerDay + 1), << "alice", " " >>, << " " >>),
      SheetRow([ raw |-> << >> ], << "alice" >>, << "a" >>),
      SheetRow([ raw |-> << "09/02/2024" >> ], << "alice" >>, << "a" >>) }

\* the sequences over S of length at most n
SeqsUpTo(S, n) == UNION { [1..k -> S] : k \in 0..n }

\* the texts typed for a date, for a requester
RawDates ==
    { << "2024-02-01" >>, << " ", "2024-02-02" >>, << "2024-02-09" >>,
      << "09/02/2024" >> }

RawRequesters == { << "alice" >>, << "@", "bob" >>, << "carol" >> }

InitAdmin ==
    /\ \E u \in Users : active = { u }
    /\ conv = [u \in Users |-> END]
    /\ user_data = [u \in Users |-> EmptyDict]
    /\ store \in SeqsUpTo(AdminRecords, MaxRecords)
    /\ ev = [u |-> 0, from |-> END, data |-> << "init" >>, rows |-> Len(store), io |-> "-"]
    /\ sent = << >>
    /\ origin = [u \in Users |-> EmptyDict]
    /\ gen = [u \in Users |-> 0]
    /\ cancelled = [u \in Users |-> 0]
    /\ toggles = [u \in Users |-> << >>]
    /\ ntoggles = 0
    /\ lastWritten = [u \in Users |-> 0]

NextAdmin ==
    \/ \E u \in Users : u \in active /\ action_export_entry(u)
    \/ \E u \in Users : u \in active /\ export_csv_command(u)
    \/ \E u \in Users : u \in active /\
            \E data \in { << "action", "export" >>, << "/export" >> } :
                export_unhandled(u, data)
    \/ \E u \in Users : u \in active /\ action_dashboard(u)
    \/ \E u \in Users : u \in active /\ dashboard_command(u)
    \/ \E u \in Users : u \in active /\
            \E now \in AdminTimes, rd \in { "ok" } \cup ReadErrors :
                action_manager(u, now, rd)
    \/ \E u \in Users : u \in active /\
            \E now \in AdminTimes, rd \in { "ok" } \cup ReadErrors :
                manager_view_command(u, now, rd)
    \/ \E u \in Users : u \in active /\
            \E now \in AdminTimes, rd \in { "ok" } \cup ReadErrors,
               data \in { << "export", "all" >>, << "export", "date" >>,
                          << "export", "requester" >>, << "export", "other" >> } :
                export_choice(u, data, now, rd)
    \/ \E u \in Users : u \in active /\
            \E now \in AdminTimes, rd \in { "ok" } \cup ReadErrors, raw \in RawDates :
                export_date_end(u, raw, now, rd)
    \/ \E u \in Users : u \in active /\
            \E now \in AdminTimes, rd \in { "ok" } \cup ReadErrors, raw \in RawRequesters :
                export_requester(u, raw, now, rd)
    \/ \E u \in Users : u \in active /\ \E raw \in RawDates : export_date_start(u, raw)
    \/ \E u \in Users : u \in active /\ cancel(u)
    \/ \E u \in Users : u \in active /\ action_recall_entry(u)

SpecAdmin == InitAdmin /\ [][NextAdmin]_vars

\* -------------------------------------------- the sheet the recall reads from
\* the two plain rows: one of alice with the brand "a", one of bob with "b"
PlainRecords ==
    { SheetRow(Timestamp(0), << "alice" >>, << "a" >>),
      SheetRow(Timestamp(0), << "bob" >>, << "b" >>) }

\* rows as the sheet may hold them besides: a requester cell with blanks around
\* the handle, one in another case, one with the id of a user without handle,
\* and brands in capitals, of two words, empty
VariedRecords ==
    PlainRecords \cup
    { SheetRow(Timestamp(0), << " ", "alice", " " >>, << "A", "b" >>),
      SheetRow(Timestamp(0), << "Alice" >>, << "B" >>),
      SheetRow(Timestamp(0), << "id:", "2" >>, << >>) }

\* the texts typed for a search
SearchTexts == { << "a" >>, << " ", "A", "b" >>, << "c" >> }

InitRecall ==
    /\ \E u \in FormUsers : active = { u }
    /\ conv = [u \in Users |-> END]
    /\ user_data = [u \in Users |-> EmptyDict]
    /\ store \in SeqsUpTo(PlainRecords, MaxSheet) \cup SeqsUpTo(VariedRecords, MaxRecords)
    /\ ev = [u |-> 0, from |-> END, data |-> << "init" >>, rows |-> Len(store), io |-> "-"]
    /\ sent = << >>
    /\ origin = [u \in Users |-> EmptyDict]
    /\ gen = [u \in Users |-> 0]
    /\ cancelled = [u \in Users |-> 0]
    /\ toggles = [u \in Users |-> << >>]
    /\ ntoggles = 0
    /\ lastWritten = [u \in Users |-> 0]

NextRecall ==
    \/ \E u \in Users : u \in active /\ action_recall_entry(u)
    \/ \E u \in Users : u \in active /\
            \E data \in { << "recall", "history" >>, << "recall", "search" >>,
                           << "recall", "other" >> },
               rd \in { "ok" } \cup ReadErrors :
                recall_choice(u, data, rd)
    \/ \E u \in Users : u \in active /\
            \E raw \in SearchTexts, rd \in { "ok" } \cup ReadErrors :
                search_brand(u, raw, rd)
    \/ \E u \in Users : u \in active /\ cancel(u)

SpecRecall == InitRecall /\ [][NextRecall]_vars

\* ------------------------------------- the callback data of a platform press
\* build_app registers platform_select under the pattern ^platform: (line 678),
\* so the handler runs for the data of the eight buttons and for any other data
\* with that prefix; "Twitch" stands for a value outside PLATFORMS
PressedPlatforms == TogglePlatforms \cup { "Twitch" }

NextSelect ==
    \/ \E u \in Users : u \in active /\ action_new_entry(u)
    \/ \E u \in Users : u \in active /\ \E raw \in RawTexts(u) : brand_name(u, raw)
    \/ \E u \in Users : u \in active /\ \E raw \in RawTexts(u) : creator_name(u, raw)
    \/ \E u \in Users : u \in active /\ \E raw \in RawTexts(u) : room_no(u, raw)
    \/ \E u \in Users : u \in active /\ \E raw \in RawTexts(u) : date_to_be_aired(u, raw)
    \/ \E u \in Users : u \in active /\ \E raw \in RawTexts(u) : camera_requirements(u, raw)
    \/ \E u \in Users : u \in active /\ \E raw \in RawTexts(u) : stage_design(u, raw)
    \/ \E u \in Users : u \in active /\ \E raw \in RawTexts(u) : other_technical(u, raw)
    \/ \E u \in Users : u \in active /\ \E raw \in RawTexts(u) : platform_other(u, raw)
    \/ \E u \in Users : u \in active /\
            \E data \in { << "mode", "single" >>, << "mode", "multi" >> } :
                platform_mode(u, data)
    \/ \E u \in Users : u \in active /\
            \E selection \in PressedPlatforms \cup { "done" } :
                platform_select(u, << "platform", selection >>)
    \/ \E u \in Users : u \in active /\
            \E data \in { << "confirm", "yes" >>, << "confirm", "no" >> },
               t \in Times,
               wr \in { "ok" } \cup WriteErrors,
               echoOk \in BOOLEAN,
               failing \in SUBSET Observers :
                confirm_submit(u, data, t, wr, echoOk, failing)
    \/ \E u \in Users : u \in active /\ cancel(u)

SpecSelect == Init /\ [][NextSelect]_vars

\* ----------------------------------------------- two users filling the form
\* both form users are in a conversation with the bot; the updates of the two
\* are handled one at a time, in any order
InitTwo ==
    /\ active = FormUsers
    /\ conv = [u \in Users |-> END]
    /\ user_data = [u \in Users |-> EmptyDict]
    /\ store = << >>
    /\ ev = [u |-> 0, from |-> END, data |-> << "init" >>, rows |-> 0, io |-> "-"]
    /\ sent = << >>
    /\ origin = [u \in Users |-> EmptyDict]
    /\ gen = [u \in Users |-> 0]
    /\ cancelled = [u \in Users |-> 0]
    /\ toggles = [u \in Users |-> << >>]
    /\ ntoggles = 0
    /\ lastWritten = [u \in Users |-> 0]

NextTwo ==
    \/ \E u \in Users : u \in active /\ action_new_entry(u)
    \/ \E u \in Users : u \in active /\ \E raw \in RawTexts(u) : brand_name(u, raw)
    \/ \E u \in Users : u \in active /\ \E raw \in RawTexts(u) : creator_name(u, raw)
    \/ \E u \in Users : u \in active /\ \E raw \in RawTexts(u) : room_no(u, raw)
    \/ \E u \in Users : u \in active /\ \E raw \in RawTexts(u) : date_to_be_aired(u, raw)
    \/ \E u \in Users : u \in active /\ \E raw \in RawTexts(u) : camera_requirements(u, raw)
    \/ \E u \in Users : u \in active /\ \E raw \in RawTexts(u) : stage_design(u, raw)
    \/ \E u \in Users : u \in active /\ \E raw \in RawTexts(u) : other_technical(u, raw)
    \/ \E u \in Users : u \in active /\ \E raw \in RawTexts(u) : platform_other(u, raw)
    \/ \E u \in Users : u \in active /\
            \E data \in { << "mode", "single" >>, << "mode", "multi" >> } :
                platform_mode(u, data)
    \/ \E u \in Users : u \in active /\
            \E selection \in TogglePlatforms \cup { "done" } :
                platform_select(u, << "platform", selection >>)
    \/ \E u \in Users : u \in active /\
            \E data \in { << "confirm", "yes" >>, << "confirm", "no" >> },
               t \in Times,
               wr \in { "ok" } \cup WriteErrors,
               echoOk \in BOOLEAN,
               failing \in SUBSET Observers :
                confirm_submit(u, data, t, wr, echoOk, failing)
    \/ \E u \in Users : u \in active /\ cancel(u)

SpecTwo == InitTwo /\ [][NextTwo]_vars

\* ------------------------------------------------------------------ claims
FormStates ==
    { BRAND_NAME, CREATOR_NAME, ROOM_NO, DATE_TO_BE_AIRED, CAMERA_REQ,
      STAGE_DESIGN, OTHER_TECH, PLATFORM_MODE, PLATFORM_SELECT, PLATFORM_OTHER,
      CONFIRM_SUBMIT }

ModeOf(u) == Get(user_data[u], "platform_mode", "Multi")

PlatformsOf(u) == Get(user_data[u], "platforms", << >>)

\* how often p was toggled in log
Count(log, p) == Cardinality({ i \in 1..Len(log) : log[i] = p })

\* the entries toggled an odd number of times in log
OddToggled(log) == { p \in SeqToSet(log) : Count(log, p) % 2 = 1 }

IsSubmit == ev.data = << "confirm", "yes" >>

Attempted(kind) == { sent[i].to : i \in { j \in 1..Len(sent) : sent[j].kind = kind } }

Failed(kind) ==
    { sent[i].to : i \in { j \in 1..Len(sent) : sent[j].kind = kind /\ ~sent[j].ok } }

\* C1: in Multi mode, while the platforms are being selected, the stored
\* selection is exactly the set of entries toggled an odd number of times since
\* the mode was chosen (each entry listed once), whatever the order of the toggles.
C1_MultiSelectionIsOddToggles ==
    \A u \in Users :
        (conv[u] = PLATFORM_SELECT /\ ModeOf(u) = "Multi") =>
            /\ SeqToSet(PlatformsOf(u)) = OddToggled(toggles[u])
            /\ Len(PlatformsOf(u)) = Cardinality(OddToggled(toggles[u]))

\* C1 witness: the same entry toggled twice in Multi mode, the selection empty again
C1_Witness ==
    \E u \in Users :
        /\ conv[u] = PLATFORM_SELECT
        /\ ModeOf(u) = "Multi"
        /\ toggles[u] = << "TikTok", "TikTok" >>
        /\ PlatformsOf(u) = << >>

\* C2: in Single mode the selection never has more than one entry, and after a
\* toggle it is exactly the entry toggled last.
C2_SingleSelectionIsLastToggle ==
    \A u \in Users :
        ModeOf(u) = "Single" =>
            /\ Len(PlatformsOf(u)) <= 1
            /\ (conv[u] = PLATFORM_SELECT /\ toggles[u] # << >>) =>
                   PlatformsOf(u) = << toggles[u][Len(toggles[u])] >>

\* C2 witness: in Single mode a second entry was toggled and replaced the first
C2_Witness ==
    \E u \in Users :
        /\ conv[u] = PLATFORM_SELECT
        /\ ModeOf(u) = "Single"
        /\ toggles[u] = << "Facebook", "TikTok" >>
        /\ PlatformsOf(u) = << "TikTok" >>

\* C6: "done" in PLATFORM_SELECT leads to PLATFORM_OTHER exactly when "Others"
\* is selected and to CONFIRM_SUBMIT otherwise; it can be pressed whatever the
\* selection, the empty one included; a toggle leaves the conversation in
\* PLATFORM_SELECT.
C6_DoneBranchesOnOthers ==
    /\ \A u \in active :
           conv[u] = PLATFORM_SELECT =>
               ENABLED platform_select(u, << "platform", "done" >>)
    /\ (ev.from = PLATFORM_SELECT /\ ev.data = << "platform", "done" >>) =>
           conv[ev.u] = IF "Others" \in SeqToSet(PlatformsOf(ev.u))
                        THEN PLATFORM_OTHER ELSE CONFIRM_SUBMIT
    /\ (ev.from = PLATFORM_SELECT /\ ev.data[1] = "platform"
            /\ ev.data # << "platform", "done" >>) =>
           conv[ev.u] = PLATFORM_SELECT

\* C6 witness: "done" pressed with "Others" selected, the other platforms asked
C6_Witness ==
    /\ ev.from = PLATFORM_SELECT
    /\ ev.data = << "platform", "done" >>
    /\ "Others" \in SeqToSet(PlatformsOf(ev.u))
    /\ conv[ev.u] = PLATFORM_OTHER

\* C3: a record written for a Single-mode form whose selection is "Facebook"
\* has an empty Other Platforms field, whatever its user did before.
C3_SingleFacebookHasNoOther ==
    \A i \in 1..Len(store) :
        (store[i].platform_mode = "Single" /\ store[i].platforms = << "Facebook" >>) =>
            store[i].platforms_other = << >>

\* C4: confirm:no in CONFIRM_SUBMIT clears the session, ends the conversation
\* and writes no record.
C4_RejectClearsSession ==
    (ev.from = CONFIRM_SUBMIT /\ ev.data = << "confirm", "no" >>) =>
        /\ user_data[ev.u] = EmptyDict
        /\ conv[ev.u] = END
        /\ Len(store) = ev.rows

\* C5: /cancel is accepted in every state from BRAND_NAME to CONFIRM_SUBMIT; it
\* clears the session, ends the conversation and writes no record, and no
\* record written afterwards holds a value entered before the cancel.
C5_CancelDiscardsSession ==
    /\ \A u \in active : conv[u] \in FormStates => ENABLED cancel(u)
    /\ ev.data = << "/cancel" >> =>
           /\ user_data[ev.u] = EmptyDict
           /\ conv[ev.u] = END
           /\ Len(store) = ev.rows
    /\ \A i \in 1..Len(store) : \A g \in store[i].origins : g > store[i].after

\* C5 witness: a user cancelled a form and has since had another one recorded,
\* every value of it entered after the cancel
C5_Witness ==
    \E i \in 1..Len(store) :
        /\ store[i].after >= 1
        /\ store[i].gen > store[i].after
        /\ store[i].origins = { store[i].gen }

\* C7: when a user whose form was recorded asks for the history and the sheet
\* is read, the reply lists the user's latest record as its last, most recent
\* line.
C7_HistoryEndsWithOwnRecord ==
    (ev.data = << "recall", "history" >> /\ ev.io = "ok" /\ lastWritten[ev.u] > 0) =>
        /\ sent[1].kind = "history"
        /\ sent[1].text[Len(sent[1].text)].row = lastWritten[ev.u]

\* C8: a failed write on confirm:yes is reported with its error text, ends the
\* conversation, adds no record and sends neither the echo nor a notification;
\* and whenever an observer is notified, the record notified of was appended by
\* the same handler.
C8_FailedWriteSendsNothing ==
    /\ (IsSubmit /\ ev.io # "ok") =>
           /\ sent = << Msg(ev.u, "save_failed", ev.io, TRUE) >>
           /\ conv[ev.u] = END
           /\ Len(store) = ev.rows
    /\ \A i \in 1..Len(sent) :
           sent[i].kind = "notify" =>
               /\ Len(store) = ev.rows + 1
               /\ store[Len(store)].requester = sent[i].text.by
               /\ store[Len(store)].ts = sent[i].text.ts
               /\ store[Len(store)].brand_name = sent[i].text.summary.brand_name

\* C8 witness: confirm:yes was pressed and the write failed
C8_Witness ==
    /\ IsSubmit
    /\ ev.from = CONFIRM_SUBMIT
    /\ ev.io \in WriteErrors
    /\ sent[1].kind = "save_failed"

\* C9: when the send to an observer fails, every configured observer has still
\* been sent to, the success reply to the submitter stands, the session is
\* cleared and the conversation has ended.
C9_NotifyFailureIsSwallowed ==
    (IsSubmit /\ Failed("notify") # {}) =>
        /\ Attempted("notify") = Observers
        /\ sent[1] = Msg(ev.u, "recorded", sent[1].text, TRUE)
        /\ Len(store) = ev.rows + 1
        /\ user_data[ev.u] = EmptyDict
        /\ conv[ev.u] = END

\* C9 witness: the send to the first observer failed, the one to the second did not
C9_Witness ==
    /\ IsSubmit
    /\ ev.from = CONFIRM_SUBMIT
    /\ ev.u \in active
    /\ Failed("notify") = { "it_lead" }
    /\ Attempted("notify") = { "it_lead", "it_ops" }

\* C10: when the echo to the submitting chat fails after a successful write,
\* the observers are still notified, the session is cleared and the
\* conversation has ended.
C10_EchoFailureIsSwallowed ==
    (IsSubmit /\ ev.io = "ok" /\ Failed("echo") # {}) =>
        /\ Attempted("notify") = Observers
        /\ user_data[ev.u] = EmptyDict
        /\ conv[ev.u] = END

\* the users whose handle is empty or is not an entry of the allow-list
NotPrivileged ==
    { u \in Users :
        \/ UserName(u) = << >>
        \/ \A i \in 1..Len(ADMIN_USERNAMES) : UserName(u) # << ADMIN_USERNAMES[i] >> }

ExportStates ==
    { EXPORT_CHOICE, EXPORT_DATE_START, EXPORT_DATE_END, EXPORT_REQUESTER }

ExportInvocations == { << "action", "export" >>, << "/export" >> }

DashboardInvocations == { << "action", "dashboard" >>, << "/dashboard" >> }

ManagerInvocations == { << "action", "manager" >>, << "/manager" >> }

\* the kinds of message that carry what an export or the manager view read
PrivilegedOutcomes == { "document", "nothing_to_export", "manager_view" }

\* C11 as stated: whenever a user who is not on the allow-list invokes export,
\* dashboard link or manager view, by command or by button, in whatever state,
\* the reply is the fixed denial text of that command, the conversation is in
\* no export state and the sheet was not read.
C11_DeniedInEveryState ==
    /\ \A u \in NotPrivileged : conv[u] \notin ExportStates
    /\ (ev.u \in NotPrivileged
            /\ ev.data \in ExportInvocations \cup DashboardInvocations
                                \cup ManagerInvocations) =>
           /\ sent = << Msg(ev.u, "denied",
                            IF ev.data \in ExportInvocations THEN "export"
                            ELSE IF ev.data \in DashboardInvocations THEN "dashboard"
                            ELSE "manager", TRUE) >>
           /\ ev.io = "-"

\* C11 amended: a user who is not on the allow-list is never in an export
\* state; the dashboard link and the manager view, invoked by command or by
\* button in whatever state, and the export, invoked while no conversation is
\* active, are answered by the fixed denial text alone; an export invoked
\* while a conversation is active is not handled at all (no reply); in each
\* case the conversation stays as it was and the sheet is not read.
C11_NotPrivilegedIsDenied ==
    /\ \A u \in NotPrivileged : conv[u] \notin ExportStates
    /\ \A u \in NotPrivileged \cap active :
           conv[u] = END =>
               ENABLED action_export_entry(u) /\ ENABLED export_csv_command(u)
    /\ (ev.u \in NotPrivileged /\ ev.data \in DashboardInvocations) =>
           /\ sent = << Msg(ev.u, "denied", "dashboard", TRUE) >>
           /\ conv[ev.u] = ev.from
           /\ ev.io = "-"
    /\ (ev.u \in NotPrivileged /\ ev.data \in ManagerInvocations) =>
           /\ sent = << Msg(ev.u, "denied", "manager", TRUE) >>
           /\ conv[ev.u] = ev.from
           /\ ev.io = "-"
    /\ (ev.u \in NotPrivileged /\ ev.data \in ExportInvocations) =>
           /\ sent = IF ev.from = END THEN << Msg(ev.u, "denied", "export", TRUE) >>
                     ELSE << >>
           /\ conv[ev.u] = ev.from
           /\ ev.io = "-"
    /\ ev.u \in NotPrivileged =>
           \A i \in 1..Len(sent) : sent[i].kind \notin PrivilegedOutcomes

\* C11 witness: a user with a handle that is not on the allow-list pressed the
\* manager view button during a conversation and was denied
C11_Witness ==
    /\ ev.u \in NotPrivileged
    /\ UserName(ev.u) # << >>
    /\ ev.data = << "action", "manager" >>
    /\ ev.from = RECALL_MENU
    /\ sent = << Msg(ev.u, "denied", "manager", TRUE) >>

\* the text typed in the update just handled
Typed(e) == Tail(e.data)

\* C12: whenever a date typed in EXPORT_DATE_END is earlier than the stored
\* start date, the only reply is the end-date prompt again, the conversation
\* stays in EXPORT_DATE_END, the session is as it was, the sheet is not read
\* and neither a file nor a nothing-to-export notice is sent; this holds for
\* every such step, so also for each one of a series of them.
C12_EndBeforeStartRepeatsPrompt ==
    [][ \A u \in Users :
            ( /\ conv[u] = EXPORT_DATE_END
              /\ ev'.u = u
              /\ ev'.data[1] = "text"
              /\ _parse_date(Typed(ev')).ok
              /\ _parse_date(Typed(ev')).date < user_data[u]["export_start"] ) =>
                ( /\ sent' = << Msg(u, "end_before_start", EXPORT_DATE_END, TRUE) >>
                  /\ conv'[u] = EXPORT_DATE_END
                  /\ user_data' = user_data
                  /\ ev'.io = "-" ) ]_vars

\* C12 witness: an end date earlier than the stored start date was typed and
\* the end date is asked for again
C12_Witness ==
    /\ ev.from = EXPORT_DATE_END
    /\ ev.data[1] = "text"
    /\ _parse_date(Typed(ev)).ok
    /\ conv[ev.u] = EXPORT_DATE_END
    /\ _parse_date(Typed(ev)).date < user_data[ev.u]["export_start"]
    /\ sent = << Msg(ev.u, "end_before_start", EXPORT_DATE_END, TRUE) >>

\* the rows of the sheet whose Timestamp cell holds a formatted timestamp with
\* its date in [start, end]
DatedWithin(start, end) ==
    { i \in 1..Len(store) :
        /\ DOMAIN store[i].ts = { "date", "tod" }
        /\ start <= store[i].ts.date
        /\ store[i].ts.date <= end }

\* C13: when an end date not earlier than the stored start date is typed in
\* EXPORT_DATE_END and the sheet is read, the export holds exactly the rows
\* whose timestamp parses and whose date lies in [start, end], both ends
\* included and whatever the time of day, each once and in the order of the
\* sheet; rows whose timestamp is empty or does not parse are left out and the
\* export goes on; when no row is left the nothing-to-export notice is sent.
C13_DateRangeExport ==
    [][ \A u \in Users :
            ( /\ conv[u] = EXPORT_DATE_END
              /\ ev'.u = u
              /\ ev'.data[1] = "text"
              /\ _parse_date(Typed(ev')).ok
              /\ user_data[u]["export_start"] <= _parse_date(Typed(ev')).date
              /\ ev'.io = "ok" ) =>
                LET want == DatedWithin(user_data[u]["export_start"],
                                        _parse_date(Typed(ev')).date)
                    lines == sent'[1].text.lines
                IN  /\ conv'[u] = END
                    /\ Len(sent') = 1
                    /\ sent'[1].kind =
                           IF want = {} THEN "nothing_to_export" ELSE "document"
                    /\ want # {} =>
                           /\ { lines[j].row : j \in 1..Len(lines) } = want
                           /\ \A j \in 1..Len(lines), k \in 1..Len(lines) :
                                  j < k => lines[j].row < lines[k].row
                           /\ \A j \in 1..Len(lines) :
                                  /\ lines[j].cells.ts = store[lines[j].row].ts
                                  /\ lines[j].cells.requester
                                         = store[lines[j].row].requester
                                  /\ lines[j].cells.brand_name
                                         = store[lines[j].row].brand_name ]_vars

\* C13 witness: the range ended on day 40; of a row written at noon of day 40
\* and a row whose timestamp does not parse, the export holds the first alone
C13_Witness ==
    /\ ev.from = EXPORT_DATE_END
    /\ ev.data[1] = "text"
    /\ _parse_date(Typed(ev)).date = 40
    /\ ev.io = "ok"
    /\ Len(store) = 2
    /\ \E i \in 1..2 : DOMAIN store[i].ts # { "date", "tod" }
    /\ sent[1].kind = "document"
    /\ Len(sent[1].text.lines) = 1
    /\ sent[1].text.lines[1].cells.ts = [ date |-> 40, tod |-> 1 ]

\* a letter without its case
Fold(c) == IF c \in { "a", "A" } THEN "a" ELSE IF c \in { "b", "B" } THEN "b" ELSE c

\* q occurs in s, the case of the letters aside
ContainsFolded(q, s) ==
    \E k \in 0..(Len(s) - Len(q)) :
        \A j \in 1..Len(q) : Fold(s[k + j]) = Fold(q[j])

\* the n largest members of a set of row indices
Latest(S, n) == { i \in S : Cardinality({ j \in S : j > i }) < n }

\* the row indices a reply lists
Listed(m) == { m.text[j].row : j \in 1..Len(m.text) }

\* C14: when a text is typed in SEARCH_BRAND and the sheet is read, the reply
\* lists exactly the rows whose Brand Name contains the typed text (blanks
\* around it dropped), the case of the letters aside, and of these the last
\* 10 of the sheet when there are more, each once and with its own cells; when
\* no row matches the reply is the no-submissions one.
C14_SearchListsLastMatches ==
    (ev.from = SEARCH_BRAND /\ ev.data[1] = "text" /\ ev.io = "ok") =>
        LET want == { i \in 1..Len(store) :
                        ContainsFolded(Strip(Typed(ev)), store[i].brand_name) }
        IN  /\ Len(sent) = 1
            /\ conv[ev.u] = END
            /\ IF want = {} THEN sent[1] = Msg(ev.u, "no_matches", << >>, TRUE)
               ELSE /\ sent[1].kind = "matches"
                    /\ Listed(sent[1]) = Latest(want, HistoryLimit)
                    /\ Len(sent[1].text) = Cardinality(Latest(want, HistoryLimit))
                    /\ \A j \in 1..Len(sent[1].text) :
                           LET l == sent[1].text[j]
                           IN  /\ l.brand_name = store[l.row].brand_name
                               /\ l.requester = store[l.row].requester
                               /\ l.ts = store[l.row].ts

\* C14 witness: eleven rows of the sheet match and the reply lists the last
\* ten of them
C14_Witness ==
    /\ ev.from = SEARCH_BRAND
    /\ ev.data[1] = "text"
    /\ ev.io = "ok"
    /\ Cardinality({ i \in 1..Len(store) :
                        ContainsFolded(Strip(Typed(ev)), store[i].brand_name) }) = 11
    /\ sent[1].kind = "matches"
    /\ Len(sent[1].text) = HistoryLimit
    /\ 1 \notin Listed(sent[1])

\* C14 witness of the case: the text " Ab" was typed and the row with the
\* brand "A b" is listed
C14_WitnessCase ==
    /\ ev.from = SEARCH_BRAND
    /\ ev.data = << "text", " ", "A", "b" >>
    /\ ev.io = "ok"
    /\ sent[1].kind = "matches"
    /\ \E j \in 1..Len(sent[1].text) : sent[1].text[j].brand_name = << "A", "b" >>

\* C15 as stated: of two rows that a search reply lists, the one appended
\* later to the sheet comes earlier in the reply.
C15_SearchMostRecentFirst ==
    (ev.from = SEARCH_BRAND /\ ev.data[1] = "text" /\ ev.io = "ok"
        /\ sent[1].kind = "matches") =>
        \A j \in 1..Len(sent[1].text), k \in 1..Len(sent[1].text) :
            j < k => sent[1].text[j].row > sent[1].text[k].row

\* C15 amended: a search reply lists its rows in the order of the sheet: of two
\* listed rows, the one appended later comes later, the most recent last.
C15_SearchInSheetOrder ==
    (ev.from = SEARCH_BRAND /\ ev.data[1] = "text" /\ ev.io = "ok"
        /\ sent[1].kind = "matches") =>
        \A j \in 1..Len(sent[1].text), k \in 1..Len(sent[1].text) :
            j < k => sent[1].text[j].row < sent[1].text[k].row

\* C15 witness: a search reply that lists more than one row, the last row of
\* the sheet as its last line
C15_Witness ==
    /\ ev.from = SEARCH_BRAND
    /\ ev.data[1] = "text"
    /\ ev.io = "ok"
    /\ sent[1].kind = "matches"
    /\ Len(sent[1].text) >= 2
    /\ sent[1].text[Len(sent[1].text)].row = Len(store)

\* C16: when a user with a handle asks for the history and the sheet is read,
\* the reply lists exactly the rows whose Requester Username, blanks around it
\* dropped, is the handle letter for letter, of these the last 10 of the sheet
\* when there are more, each once, in the order of the sheet and with its own
\* cells; when no row matches the reply is the no-submissions one, and the
\* conversation ends either way.
C16_HistoryListsOwnLastRows ==
    (ev.data = << "recall", "history" >> /\ ev.io = "ok" /\ UserName(ev.u) # << >>) =>
        LET want == { i \in 1..Len(store) :
                        Strip(store[i].requester) = UserName(ev.u) }
        IN  /\ Len(sent) = 1
            /\ conv[ev.u] = END
            /\ IF want = {} THEN sent[1] = Msg(ev.u, "no_history", << >>, TRUE)
               ELSE /\ sent[1].kind = "history"
                    /\ Listed(sent[1]) = Latest(want, HistoryLimit)
                    /\ \A j \in 1..Len(sent[1].text), k \in 1..Len(sent[1].text) :
                           j < k => sent[1].text[j].row < sent[1].text[k].row
                    /\ \A j \in 1..Len(sent[1].text) :
                           LET l == sent[1].text[j]
                           IN  /\ l.ts = store[l.row].ts
                               /\ l.brand_name = store[l.row].brand_name
                               /\ l.date_to_be_aired = store[l.row].date_to_be_aired

\* C16 witness: the sheet holds eleven rows of the user and the reply lists the
\* last ten of them
C16_Witness ==
    /\ ev.data = << "recall", "history" >>
    /\ ev.io = "ok"
    /\ Cardinality({ i \in 1..Len(store) :
                        Strip(store[i].requester) = UserName(ev.u) }) = 11
    /\ sent[1].kind = "history"
    /\ Len(sent[1].text) = HistoryLimit
    /\ sent[1].text[1].row = 2

\* C16 witness of the match: the sheet holds a row of " alice " and a row of
\* "Alice", and the reply to alice lists the first alone
C16_WitnessTrim ==
    /\ ev.data = << "recall", "history" >>
    /\ ev.io = "ok"
    /\ Len(store) = 2
    /\ store[1].requester = << " ", "alice", " " >>
    /\ store[2].requester = << "Alice" >>
    /\ sent[1].kind = "history"
    /\ Listed(sent[1]) = { 1 }

\* rows without row i
Without(rows, i) == SubSeq(rows, 1, i - 1) \o SubSeq(rows, i + 1, Len(rows))

\* C17: in every manager view, whatever the sheet and the clock, the 7-day
\* counter is at most the 30-day counter and that at most the total, which is
\* the number of rows; and a row that adds one to the 7-day counter adds one
\* to the 30-day counter too.
C17_ManagerCountersAreCumulative ==
    \A m \in 1..Len(sent) :
        sent[m].kind = "manager_view" =>
            LET v == sent[m].text
            IN  /\ v.total = Len(store)
                /\ 0 <= v.last_7
                /\ v.last_7 <= v.last_30
                /\ v.last_30 <= v.total
                /\ \A i \in 1..Len(store) :
                       LET rest == CountWindows(Without(store, i), v.now)
                       IN  v.last_7 = rest.last_7 + 1 => v.last_30 = rest.last_30 + 1

\* C17 witness: of two rows one is counted in both windows and one in the
\* 30-day window alone
C17_Witness ==
    \E m \in 1..Len(sent) :
        /\ sent[m].kind = "manager_view"
        /\ sent[m].text.total = 2
        /\ sent[m].text.last_7 = 1
        /\ sent[m].text.last_30 = 2

\* C18: the manager view of a sheet without rows reports the total 0, the
\* 7-day counter 0, the 30-day counter 0 and, for the top brands, the
\* placeholder line alone.
C18_EmptySheetManagerView ==
    \A m \in 1..Len(sent) :
        (sent[m].kind = "manager_view" /\ store = << >>) =>
            /\ sent[m].text.total = 0
            /\ sent[m].text.last_7 = 0
            /\ sent[m].text.last_30 = 0
            /\ sent[m].text.top = << << "- None" >> >>

\* C18 witness: the manager view was asked for by command over an empty sheet
C18_Witness ==
    /\ store = << >>
    /\ ev.data = << "/manager" >>
    /\ ev.io = "ok"
    /\ Len(sent) = 1
    /\ sent[1].kind = "manager_view"

\* the rows whose timestamp parses and is at most days * 24 hours before now
AgedAtMost(now, days) ==
    { i \in 1..Len(store) :
        /\ DOMAIN store[i].ts = { "date", "tod" }
        /\ now - (store[i].ts.date * TicksPerDay + store[i].ts.tod)
               <= days * TicksPerDay }

\* C19: in every manager view the 7-day counter is the number of rows whose
\* timestamp parses and is at most 7 * 24 hours before now, and the 30-day
\* counter the number of those at most 30 * 24 hours before now; a row 7 days
\* and 12 hours old is not in the 7-day counter.
C19_WindowsAreExact ==
    \A m \in 1..Len(sent) :
        sent[m].kind = "manager_view" =>
            /\ sent[m].text.last_7 = Cardinality(AgedAtMost(sent[m].text.now, WeekDays))
            /\ sent[m].text.last_30 = Cardinality(AgedAtMost(sent[m].text.now, MonthDays))

\* the states of the Field Collector in the order of the claim, and the key
\* each of them collects
FieldOrder ==
    << BRAND_NAME, CREATOR_NAME, ROOM_NO, DATE_TO_BE_AIRED, CAMERA_REQ,
       STAGE_DESIGN, OTHER_TECH, PLATFORM_MODE >>

FieldKeys ==
    << "brand_name", "creator_name", "room_no", "date_to_be_aired",
       "camera_requirements", "stage_design", "other_technical", "platform_mode" >>

\* the first n keys are in u's session, written in u's current conversation
Collected(u, n) ==
    \A q \in 1..n :
        /\ FieldKeys[q] \in DOMAIN user_data[u]
        /\ origin[u][FieldKeys[q]] = gen[u]

\* C20: a conversation is in the p-th state of the order BRAND_NAME ..
\* PLATFORM_MODE only with the p - 1 fields before it collected in this same
\* conversation, and in PLATFORM_SELECT, PLATFORM_OTHER or CONFIRM_SUBMIT only
\* with all seven texts and the platform mode collected in it; a reply in the
\* p-th state stores that state's field and leads to the (p + 1)-th state and
\* to no other; the p-th state is entered from the (p - 1)-th alone, and
\* BRAND_NAME from no conversation; a followed user's row is appended only in
\* CONFIRM_SUBMIT.
C20_FieldCollectorIsLinear ==
    /\ [] \A u \in Users :
            /\ \A p \in 1..8 : conv[u] = FieldOrder[p] => Collected(u, p - 1)
            /\ conv[u] \in { PLATFORM_SELECT, PLATFORM_OTHER, CONFIRM_SUBMIT } =>
                   Collected(u, 8)
    /\ [][ \A u \in Users :
              /\ \A p \in 1..8 :
                     /\ (conv[u] = FieldOrder[p] /\ ev'.u = u
                             /\ ev'.data[1] \in { "text", "mode" }) =>
                            /\ conv'[u] = IF p < 8 THEN FieldOrder[p + 1]
                                           ELSE PLATFORM_SELECT
                            /\ FieldKeys[p] \in DOMAIN user_data'[u]
                            /\ origin'[u][FieldKeys[p]] = gen'[u]
                     /\ (conv[u] = FieldOrder[p] /\ conv'[u] # conv[u]) =>
                            conv'[u] \in { IF p < 8 THEN FieldOrder[p + 1]
                                           ELSE PLATFORM_SELECT, END }
                     /\ (conv'[u] = FieldOrder[p] /\ conv[u] # conv'[u]) =>
                            conv[u] = IF p > 1 THEN FieldOrder[p - 1] ELSE END
              /\ (Len(store') > Len(store) /\ ev'.u = u /\ u \in active) =>
                     conv[u] = CONFIRM_SUBMIT /\ Collected(u, 8) ]_vars

\* C20 witness: a followed user's row was appended from CONFIRM_SUBMIT in the
\* user's second conversation
C20_Witness ==
    /\ ev.u \in active
    /\ ev.from = CONFIRM_SUBMIT
    /\ ev.data = << "confirm", "yes" >>
    /\ Len(store) = ev.rows + 1
    /\ store[Len(store)].gen = 2

\* the platform catalog as a set, the platforms a session holds as selected
Catalog == SeqToSet(PLATFORMS)

SelectedPlatforms(u) == SeqToSet(Get(user_data[u], "platforms", << >>))

\* C21 In every reachable state, whatever platform: data the selector has
\* handled, the platforms selected in each user's session are a subset of the
\* eight-entry platform catalog.
C21_SelectionWithinCatalog ==
    \A u \in Users : SelectedPlatforms(u) \subseteq Catalog

\* the typed texts that are not a date written as YYYY-MM-DD
MalformedDates == { << "09/02/2024" >> }

\* C22: whenever a text that is not a date is typed in EXPORT_DATE_START or in
\* EXPORT_DATE_END, the only reply asks for the same date again, the
\* conversation stays in the state it was in, the session, a stored start date
\* included, is as it was, the sheet is not read and nothing is exported.
C22_MalformedDateRepeatsState ==
    [][ \A u \in Users :
            ( /\ conv[u] \in { EXPORT_DATE_START, EXPORT_DATE_END }
              /\ ev'.u = u
              /\ ev'.data[1] = "text"
              /\ Typed(ev') \in MalformedDates ) =>
                ( /\ sent' = << Msg(u, "invalid_date", conv[u], TRUE) >>
                  /\ conv' = conv
                  /\ user_data' = user_data
                  /\ store' = store
                  /\ ev'.io = "-" ) ]_vars

\* C22 witness: a text that is not a date was typed for the end date while a
\* start date is stored; the end date is asked for again and the start date
\* is still there
C22_Witness ==
    /\ ev.from = EXPORT_DATE_END
    /\ ev.data[1] = "text"
    /\ Typed(ev) \in MalformedDates
    /\ conv[ev.u] = EXPORT_DATE_END
    /\ "export_start" \in DOMAIN user_data[ev.u]
    /\ sent = << Msg(ev.u, "invalid_date", EXPORT_DATE_END, TRUE) >>

\* the same for the start date
C22_WitnessStart ==
    /\ ev.from = EXPORT_DATE_START
    /\ ev.data[1] = "text"
    /\ Typed(ev) \in MalformedDates
    /\ conv[ev.u] = EXPORT_DATE_START
    /\ sent = << Msg(ev.u, "invalid_date", EXPORT_DATE_START, TRUE) >>

\* the texts user u can have entered, as the handlers keep them
EnteredBy(u) == { Strip(raw) : raw \in RawTexts(u) }

TextKeys ==
    { "brand_name", "creator_name", "room_no", "date_to_be_aired",
      "camera_requirements", "stage_design", "other_technical",
      "platforms_other" }

\* the cell of a row under a key of the session
CellOf(r, k) ==
    CASE k = "brand_name" -> r.brand_name
      [] k = "creator_name" -> r.creator_name
      [] k = "room_no" -> r.room_no
      [] k = "date_to_be_aired" -> r.date_to_be_aired
      [] k = "camera_requirements" -> r.camera_requirements
      [] k = "stage_design" -> r.stage_design
      [] k = "other_technical" -> r.other_technical
      [] OTHER -> r.platforms_other

\* C23: with two users in conversations whose updates are handled in any
\* order, a step taken for one user leaves the conversation state and the
\* session of every other user as they were, and a row appended in a step
\* taken for a user carries that user as requester, is built from that user's
\* own session and holds no text but texts that user typed.
C23_UsersAreIsolated ==
    [][ /\ \A b \in Users :
              ev'.u # b => ( conv'[b] = conv[b] /\ user_data'[b] = user_data[b] )
        /\ store' # store =>
              LET r == store'[Len(store')]
                  d == user_data[ev'.u]
              IN  /\ r.requester = Requester(ev'.u)
                  /\ \A k \in TextKeys :
                        /\ CellOf(r, k) = Get(d, k, << >>)
                        /\ CellOf(r, k) \in EnteredBy(ev'.u) \cup { << >> }
                  /\ r.platform_mode = Get(d, "platform_mode", "")
                  /\ r.platforms = Join(Get(d, "platforms", << >>)) ]_vars

\* C23 witness: one user's form has just been written to the sheet while the
\* other user, with texts of their own collected, is waiting to confirm
C23_Witness ==
    \E a, b \in FormUsers :
        /\ a # b
        /\ ev.u = a
        /\ ev.from = CONFIRM_SUBMIT
        /\ ev.data = << "confirm", "yes" >>
        /\ Len(store) = ev.rows + 1
        /\ store[Len(store)].brand_name \in EnteredBy(a)
        /\ conv[b] = CONFIRM_SUBMIT
        /\ Get(user_data[b], "brand_name", << >>) \in EnteredBy(b)

\* the step just taken handled a confirm:yes in CONFIRM_SUBMIT whose write
\* succeeded
ConfirmedAndWritten(e) ==
    /\ e.from = CONFIRM_SUBMIT
    /\ e.data = << "confirm", "yes" >>
    /\ e.io = "ok"

\* the store changes only by the append of one row, in the steps above and in
\* each of them
C24_OneRowPerWrittenConfirm ==
    [][ /\ Len(store') >= Len(store)
        /\ SubSeq(store', 1, Len(store)) = store
        /\ Len(store') = Len(store) + ( IF ConfirmedAndWritten(ev') THEN 1 ELSE 0 )
      ]_vars

\* C24: under every interleaving of the users' events a completed form is
\* appended to the store at most once: no two records of the store come from
\* the same conversation of the same user.
C24_FormAppendedAtMostOnce ==
    \A i, j \in 1..Len(store) :
        ( store[i].requester = store[j].requester /\ store[i].gen = store[j].gen )
            => i = j
====
